---- MODULE Spec2Model ----
(***************************************************************************)
(* Model of the Pokemon TCG Trader backend (src/main.py).                  *)
(*                                                                         *)
(* Three specifications share the variables below.                         *)
(*   Spec        the service: the in-memory cache, the wall clock and the  *)
(*               route handlers, each handler one atomic action whose      *)
(*               upstream answers are chosen nondeterministically.         *)
(*   SpecEnrich  the pure enrichment functions applied to inputs that Init *)
(*               draws from bounded sets.                                  *)
(*   SpecRace    two request threads inside get_cached_or_fetch for the    *)
(*               same key, one step per statement.                         *)
(*                                                                         *)
(* Time is in whole seconds.  Money is in mills (1/1000 of a currency      *)
(* unit) so that 4.50 is 4500 and round(x, 2) is a real operation.         *)
(***************************************************************************)
EXTENDS Integers, Sequences, FiniteSets, TLC

VARIABLES cache, now, req, resp, cacheCall, card, totals, out, pc, frame, writes

vars == <<cache, now, req, resp, cacheCall, card, totals, out, pc, frame, writes>>

threadVars == <<pc, frame, writes>>

svcVars == <<cache, now, req, resp, cacheCall>>

pureVars == <<card, totals, out>>

(***************************************************************************)
(* Program constants and bounds                                            *)
(***************************************************************************)
CACHE_DURATION == 3600

SecondsPerDay == 86400

MaxDays == 1

Offsets == {0, 3599, 3600}

Instants == {d * SecondsPerDay + o : d \in 0..MaxDays, o \in Offsets}

CardIds == {"c1", "c2"}

Statuses == {200, 404, 503}

None == "None"

CardVersions == {"v1", "v2"}

(***************************************************************************)
(* JSON values of a card record.  A key of a dict is absent, or present    *)
(* with the value null, or present with a proper value.                    *)
(***************************************************************************)
Absent == [k |-> "absent", v |-> 0]

Null == [k |-> "null", v |-> 0]

Num(n) == [k |-> "num", v |-> n]

Str(x) == [k |-> "str", v |-> x]

Dict(d) == [k |-> "dict", v |-> d]

\* Python's `x or 0` on a number or None
OrZero(x) == IF x.k = "num" THEN x.v ELSE 0

\* round half to even of n / d (d > 0), the rule of Python's round()
RoundHalfEven(n, d) ==
    LET q == n \div d
        r == n % d
    IN  IF 2 * r < d THEN q
        ELSE IF 2 * r > d THEN q + 1
        ELSE IF q % 2 = 0 THEN q ELSE q + 1

\* round(x, 2) of an amount in mills
Round2(x) == RoundHalfEven(x, 10) * 10

NoCard == [rarity |-> Absent, tcgplayer |-> Absent]

NoTotals == [total_value |-> 0, total_cards |-> 0]

NoOut == [fn |-> "none"]

(***************************************************************************)
(* extract_market_price.  prices is the dict tcgplayer.prices as the       *)
(* sequence of its items in iteration (insertion) order, each item         *)
(* [name, market, mid].                                                    *)
(***************************************************************************)
PreferenceOrder == <<"normal", "holofoil", "unlimited", "1stEdition">>

HasVariant(prices, name) == \E i \in 1..Len(prices) : prices[i].name = name

Variant(prices, name) == prices[CHOOSE i \in 1..Len(prices) : prices[i].name = name]

\* the second loop: the first item, in the dict's order, that has a mid key
RECURSIVE FirstMid(_, _)
FirstMid(prices, i) ==
    IF i > Len(prices) THEN 0
    ELSE IF prices[i].mid.k # "absent" THEN OrZero(prices[i].mid)
         ELSE FirstMid(prices, i + 1)

\* the first loop: the first preferred variant that has a market key
RECURSIVE FirstMarket(_, _)
FirstMarket(prices, i) ==
    IF i > Len(PreferenceOrder) THEN FirstMid(prices, 1)
    ELSE IF /\ HasVariant(prices, PreferenceOrder[i])
            /\ Variant(prices, PreferenceOrder[i]).market.k # "absent"
         THEN OrZero(Variant(prices, PreferenceOrder[i]).market)
         ELSE FirstMarket(prices, i + 1)

\* card.get('tcgplayer', {}).get('prices', {}); a null tcgplayer or a null
\* prices raises inside the try block and the bare except returns 0
extract_market_price(c) ==
    IF c.tcgplayer.k # "dict" THEN 0
    ELSE IF c.tcgplayer.v.k # "dict" THEN 0
    ELSE FirstMarket(c.tcgplayer.v.v, 1)

(***************************************************************************)
(* calculate_pull_rate.  Percentages are in hundredths of a percent.       *)
(***************************************************************************)
Row(rate, packs) == [rate |-> rate, packs |-> packs]

pull_rates ==
    [r \in {"Common", "Uncommon", "Rare", "Rare Holo", "Rare Holo EX", "Rare Holo GX",
            "Rare Holo V", "Rare Holo VMAX", "Rare Ultra", "Rare Secret", "Rare Rainbow",
            "Hyper Rare", "Special Illustration Rare"} |->
        CASE r = "Common" -> Row(6500, 1)
          [] r = "Uncommon" -> Row(3000, 1)
          [] r = "Rare" -> Row(1000, 1)
          [] r = "Rare Holo" -> Row(333, 3)
          [] r \in {"Rare Holo EX", "Rare Holo GX", "Rare Holo V"} -> Row(166, 6)
          [] r \in {"Rare Holo VMAX", "Rare Ultra"} -> Row(83, 12)
          [] OTHER -> Row(25, 40)]

DefaultRow == Row(500, 2)

\* card.get('rarity', 'Common')
RarityOf(c) == IF c.rarity.k = "absent" THEN Str("Common") ELSE c.rarity

\* an unknown rarity given the row of the default rarity 'Common'
RateInfo_common(rarity) ==
    IF rarity.k = "str" /\ rarity.v \in DOMAIN pull_rates
    THEN pull_rates[rarity.v] ELSE pull_rates["Common"]

\* pull_rates.get(rarity, default)
RateInfo(rarity) ==
    IF rarity.k = "str" /\ rarity.v \in DOMAIN pull_rates
    THEN pull_rates[rarity.v] ELSE DefaultRow

calculate_pull_rate(c) ==
    [percentage |-> RateInfo(RarityOf(c)).rate,
     one_in_packs |-> RateInfo(RarityOf(c)).packs,
     rarity |-> RarityOf(c)]

(***************************************************************************)
(* calculate_investment.  roi_percentage is in hundredths of a percent.    *)
(***************************************************************************)
pack_cost == 4500

\* the boundary market_price = opening_cost taken as BUY_SINGLE
Recommendation_inclusive(market_price, opening_cost) ==
    IF market_price <= opening_cost THEN "BUY_SINGLE" ELSE "OPEN_PACKS"

Recommendation(market_price, opening_cost) ==
    IF market_price < opening_cost THEN "BUY_SINGLE" ELSE "OPEN_PACKS"

calculate_investment(c) ==
    LET market_price == extract_market_price(c)
        packs_needed == calculate_pull_rate(c).one_in_packs
        opening_cost == packs_needed * pack_cost
    IN  [market_price |-> market_price,
         average_opening_cost |-> Round2(opening_cost),
         packs_needed_average |-> packs_needed,
         roi_percentage |-> IF opening_cost > 0
                            THEN RoundHalfEven((market_price - opening_cost) * 10000,
                                               opening_cost)
                            ELSE 0,
         recommendation |-> Recommendation(market_price, opening_cost)]

(***************************************************************************)
(* calculate_set_rating.  The average is kept as the exact fraction        *)
(* <<numerator in mills, denominator>>.                                    *)
(***************************************************************************)
AvgValue(total_value, total_cards) ==
    IF total_cards > 0 THEN <<total_value, total_cards>> ELSE <<0, 1>>

\* the thresholds taken as inclusive
Above_inclusive(avg, k) == avg[1] >= k * 1000 * avg[2]

\* avg > k, k in whole currency units
Above(avg, k) == avg[1] > k * 1000 * avg[2]

calculate_set_rating(total_value, total_cards) ==
    LET avg_value == AvgValue(total_value, total_cards)
    IN  IF Above(avg_value, 10) THEN "Exceptional"
        ELSE IF Above(avg_value, 5) THEN "Very Good"
        ELSE IF Above(avg_value, 2) THEN "Good"
        ELSE IF Above(avg_value, 1) THEN "Regular"
        ELSE "Basic"

(***************************************************************************)
(* The upstream catalog: one answer to one requests.get call.  Either the  *)
(* call raises (transport failure) or it returns a status code and, for a  *)
(* 200, a body that parses and carries the expected keys (json) or not.    *)
(***************************************************************************)
Raised == [raised |-> TRUE, status_code |-> 0, json |-> FALSE, body |-> None]

Answer(s, b) == [raised |-> FALSE, status_code |-> s, json |-> TRUE, body |-> b]

Malformed == [raised |-> FALSE, status_code |-> 200, json |-> FALSE, body |-> None]

UpstreamOutcomes(bodies) ==
    {Raised, Malformed} \cup {Answer(s, None) : s \in Statuses \ {200}}
                        \cup {Answer(200, b) : b \in bodies}

\* the outcomes drawn for the secondary queries of the related-cards handler
SubOutcomes(bodies) ==
    {Raised, Answer(503, None)} \cup {Answer(200, b) : b \in bodies}

NoUpstream == [raised |-> FALSE, status_code |-> 0, json |-> FALSE, body |-> None]

(***************************************************************************)
(* Responses to the client                                                 *)
(***************************************************************************)
HTTPException(code, msg) ==
    [raised |-> TRUE, status_code |-> code, success |-> FALSE, detail |-> msg, data |-> None]

Success(d) ==
    [raised |-> FALSE, status_code |-> 200, success |-> TRUE, detail |-> "", data |-> d]

\* `except Exception as e: raise HTTPException(status_code=500, detail=str(e))`
\* HTTPException is itself an Exception, so the handler's own HTTPExceptions
\* are caught here as well.
ExceptException(r) ==
    IF r.raised THEN HTTPException(500, "str(e)") ELSE r

(***************************************************************************)
(* get_cached_or_fetch                                                     *)
(***************************************************************************)
\* timedelta.seconds: the seconds component of a normalised timedelta
\* (days, seconds, microseconds), always in 0..86399
TimedeltaSeconds(d) == d % SecondsPerDay

\* the comparison of the age with the time-to-live turned around
CacheFresh_inverted(c, key, t) ==
    /\ key \in DOMAIN c
    /\ TimedeltaSeconds(t - c[key][2]) > CACHE_DURATION

CacheFresh(c, key, t) ==
    /\ key \in DOMAIN c
    /\ TimedeltaSeconds(t - c[key][2]) < CACHE_DURATION

\* the value replaced and the timestamp of an existing entry kept: the two
\* halves of the entry written separately
CacheStore_torn(c, key, data, t) ==
    [k \in DOMAIN c \cup {key} |->
        IF k = key THEN <<data, IF key \in DOMAIN c THEN c[key][2] ELSE t>> ELSE c[k]]

\* an absent result (None) not stored
CacheStore_skipNone(c, key, data, t) ==
    IF data = None THEN c
    ELSE [k \in DOMAIN c \cup {key} |-> IF k = key THEN <<data, t>> ELSE c[k]]

CacheStore(c, key, data, t) ==
    [k \in DOMAIN c \cup {key} |-> IF k = key THEN <<data, t>> ELSE c[k]]

\* fetched is the producer's outcome ([raised, value]); t2 the clock when
\* the producer has returned.  The result gives the new cache, the value
\* returned, whether an exception propagates, and the number of producer
\* invocations.
get_cached_or_fetch(c, key, fetched, t, t2) ==
    IF CacheFresh(c, key, t)
    THEN [cache |-> c, ret |-> c[key][1], raised |-> FALSE, invoked |-> 0, at |-> t]
    ELSE IF fetched.raised
         THEN [cache |-> c, ret |-> None, raised |-> TRUE, invoked |-> 1, at |-> t2]
         ELSE [cache |-> CacheStore(c, key, fetched.value, t2), ret |-> fetched.value,
               raised |-> FALSE, invoked |-> 1, at |-> t2]

\* the request threads of the race, and the locals of one call of
\* get_cached_or_fetch
Threads == {"t1", "t2"}

NoFrame == [cached |-> <<None, 0>>, data |-> None, timestamp |-> 0, ret |-> None, invoked |-> 0]

NoCacheCall ==
    [called |-> FALSE, key |-> <<>>, hadEntry |-> FALSE, entry |-> <<None, 0>>,
     start |-> 0, at |-> 0, fetched |-> None, ret |-> None, raised |-> FALSE, invoked |-> 0]

CacheKey(card_id) == <<"card", card_id>>

\* fetch_card, the producer of get_card_detail
fetch_card(u) ==
    IF u.raised THEN [raised |-> TRUE, value |-> None]
    ELSE IF u.status_code = 200
         THEN IF ~u.json THEN [raised |-> TRUE, value |-> None]
              ELSE [raised |-> FALSE, value |-> u.body]
         ELSE [raised |-> FALSE, value |-> None]

\* an exception other than HTTPException raised inside a handler's try block
Exception(msg) ==
    [raised |-> TRUE, status_code |-> 0, success |-> FALSE, detail |-> msg, data |-> None]

NoReq ==
    [handler |-> "none", id |-> "", limit |-> 0, full |-> FALSE,
     up1 |-> NoUpstream, up2 |-> NoUpstream, up3 |-> NoUpstream]

NoResp == [raised |-> FALSE, status_code |-> 0, success |-> FALSE, detail |-> "", data |-> None]

\* the clock readings possible when a fetch begun at `now` has returned: the
\* same instant, or the next one
Later ==
    {now} \cup {t \in Instants : t > now /\ \A x \in Instants : x > now => t <= x}

(***************************************************************************)
(* Input sets of the handlers                                              *)
(***************************************************************************)
SetIds == {"s1"}

RelatedIds == {"c1"}

CardLists == {<<"c1", "c2">>}

SetLists == {<<"s1">>}

HotLists == {<<"h1", "h2">>}

ColdLists == {<<"k1">>}

SamePokemonLists == {<<"r1">>}

SameSetLists == {<<"r1", "r2">>}

Limits == {1, 8}

(***************************************************************************)
(* The wall clock (datetime.now()) advances between requests.              *)
(***************************************************************************)
Tick ==
    /\ \E t \in Instants : t > now /\ now' = t
    /\ UNCHANGED <<cache, req, resp, cacheCall, card, totals, out, pc, frame, writes>>

(***************************************************************************)
(* GET /api/search                                                         *)
(***************************************************************************)
search_cards_body(u) ==
    IF u.raised THEN Exception("requests")
    ELSE IF u.status_code = 200
         THEN IF ~u.json THEN Exception("json") ELSE Success(u.body)
         ELSE HTTPException(u.status_code, "Error fetching data")

search_cards ==
    \E u \in UpstreamOutcomes(CardLists) :
        /\ req' = [NoReq EXCEPT !.handler = "search_cards", !.up1 = u]
        /\ resp' = ExceptException(search_cards_body(u))
        /\ cacheCall' = NoCacheCall
        /\ UNCHANGED <<cache, now, card, totals, out, pc, frame, writes>>

(***************************************************************************)
(* GET /api/card/{card_id}                                                 *)
(***************************************************************************)
get_card_detail_body(r) ==
    IF r.raised THEN Exception("fetch_card")
    ELSE IF r.ret = None THEN HTTPException(404, "Card not found")
         ELSE Success(r.ret)

get_card_detail(card_id) ==
    LET hit == CacheFresh(cache, CacheKey(card_id), now) IN
    \E u \in IF hit THEN {NoUpstream} ELSE UpstreamOutcomes(CardVersions) :
    \E t2 \in IF hit THEN {now} ELSE Later :
        LET key == CacheKey(card_id)
            f == fetch_card(u)
            r == get_cached_or_fetch(cache, key, f, now, t2)
            had == key \in DOMAIN cache
        IN  /\ cache' = r.cache
            /\ now' = r.at
            /\ req' = [NoReq EXCEPT !.handler = "get_card_detail", !.id = card_id,
                                    !.up1 = u]
            /\ resp' = ExceptException(get_card_detail_body(r))
            /\ cacheCall' = [called |-> TRUE, key |-> key, hadEntry |-> had,
                             entry |-> IF had THEN cache[key] ELSE <<None, 0>>,
                             start |-> now, at |-> r.at,
                             fetched |-> IF r.invoked = 1 THEN f.value ELSE None,
                             ret |-> r.ret, raised |-> r.raised, invoked |-> r.invoked]
            /\ UNCHANGED <<card, totals, out, pc, frame, writes>>

(***************************************************************************)
(* GET /api/trending: both upstream calls are made first, then each list   *)
(* is filled from its own response when that response is a 200.            *)
(***************************************************************************)
TrendingList(u) == IF u.status_code = 200 THEN u.body ELSE <<>>

\* a failed sub-query treated like the failed query of the search handler
get_trending_cards_body_strict(hot, cold) ==
    IF hot.raised \/ cold.raised THEN Exception("requests")
    ELSE IF hot.status_code # 200 THEN HTTPException(hot.status_code, "Error fetching data")
    ELSE IF cold.status_code # 200 THEN HTTPException(cold.status_code, "Error fetching data")
    ELSE IF ~hot.json \/ ~cold.json THEN Exception("json")
    ELSE Success([hot_cards |-> hot.body, cold_cards |-> cold.body])

get_trending_cards_body(hot, cold) ==
    IF hot.raised \/ cold.raised THEN Exception("requests")
    ELSE IF (hot.status_code = 200 /\ ~hot.json) \/ (cold.status_code = 200 /\ ~cold.json)
         THEN Exception("json")
         ELSE Success([hot_cards |-> TrendingList(hot), cold_cards |-> TrendingList(cold)])

get_trending_cards ==
    \E hot \in UpstreamOutcomes(HotLists) :
    \E cold \in IF hot.raised THEN {NoUpstream} ELSE UpstreamOutcomes(ColdLists) :
        /\ req' = [NoReq EXCEPT !.handler = "get_trending_cards", !.up1 = hot, !.up2 = cold]
        /\ resp' = ExceptException(get_trending_cards_body(hot, cold))
        /\ cacheCall' = NoCacheCall
        /\ UNCHANGED <<cache, now, card, totals, out, pc, frame, writes>>

(***************************************************************************)
(* GET /api/sets                                                           *)
(***************************************************************************)
get_all_sets_body(u) ==
    IF u.raised THEN Exception("requests")
    ELSE IF u.status_code = 200
         THEN IF ~u.json THEN Exception("json") ELSE Success(u.body)
         ELSE HTTPException(u.status_code, "Error fetching sets")

get_all_sets ==
    \E u \in UpstreamOutcomes(SetLists) :
        /\ req' = [NoReq EXCEPT !.handler = "get_all_sets", !.up1 = u]
        /\ resp' = ExceptException(get_all_sets_body(u))
        /\ cacheCall' = NoCacheCall
        /\ UNCHANGED <<cache, now, card, totals, out, pc, frame, writes>>

(***************************************************************************)
(* GET /api/set/{set_id}: the cards query is made only after the set query *)
(* answered 200 with a usable body.                                        *)
(***************************************************************************)
\* the call returned, with status 200 and a body the handler can read
Usable(u) == ~u.raised /\ u.status_code = 200 /\ u.json

\* the call returned and the handler goes on: a non-200 is skipped silently
Continues(u) == ~u.raised /\ (u.status_code = 200 => u.json)

get_set_detail_body(us, uc) ==
    IF us.raised THEN Exception("requests")
    ELSE IF us.status_code # 200 THEN HTTPException(404, "Set not found")
    ELSE IF ~us.json THEN Exception("json")
    ELSE IF uc.raised THEN Exception("requests")
    ELSE IF uc.status_code = 200 /\ ~uc.json THEN Exception("json")
    ELSE Success([set |-> us.body,
                  cards |-> IF uc.status_code = 200 THEN uc.body ELSE <<>>])

get_set_detail(set_id) ==
    \E us \in UpstreamOutcomes({set_id}) :
    \E uc \in IF Usable(us) THEN UpstreamOutcomes(CardLists) ELSE {NoUpstream} :
        /\ req' = [NoReq EXCEPT !.handler = "get_set_detail", !.id = set_id,
                                !.up1 = us, !.up2 = uc]
        /\ resp' = ExceptException(get_set_detail_body(us, uc))
        /\ cacheCall' = NoCacheCall
        /\ UNCHANGED <<cache, now, card, totals, out, pc, frame, writes>>

(***************************************************************************)
(* GET /api/related/{card_id}                                              *)
(***************************************************************************)
Take(s, n) == SubSeq(s, 1, IF Len(s) < n THEN Len(s) ELSE n)

\* the de-duplication loop: keep the first occurrence of each id and stop
\* once `limit` entries are kept (the test follows the append)
RECURSIVE UniqueRelated(_, _, _, _)
UniqueRelated(related, i, kept, limit) ==
    IF i > Len(related) THEN kept
    ELSE IF \E j \in 1..Len(kept) : kept[j] = related[i]
         THEN UniqueRelated(related, i + 1, kept, limit)
         ELSE IF Len(kept) + 1 >= limit THEN Append(kept, related[i])
              ELSE UniqueRelated(related, i + 1, Append(kept, related[i]), limit)

RelatedOf(u, n) == IF u.status_code = 200 THEN Take(u.body, n) ELSE <<>>

get_related_cards_body(uc, up, us, full, limit) ==
    IF uc.raised THEN Exception("requests")
    ELSE IF uc.status_code # 200 THEN HTTPException(404, "Card not found")
    ELSE IF ~uc.json THEN Exception("json")
    ELSE IF up.raised THEN Exception("requests")
    ELSE IF up.status_code = 200 /\ ~up.json THEN Exception("json")
    ELSE IF full /\ us.raised THEN Exception("requests")
    ELSE IF full /\ us.status_code = 200 /\ ~us.json THEN Exception("json")
    ELSE Success(UniqueRelated(RelatedOf(up, 3) \o (IF full THEN RelatedOf(us, 2) ELSE <<>>),
                               1, <<>>, limit))

get_related_cards(card_id, limit) ==
    \E uc \in UpstreamOutcomes({"v1"}) :
    \E full \in IF Usable(uc) THEN BOOLEAN ELSE {FALSE} :
    \E up \in IF Usable(uc) THEN SubOutcomes(SamePokemonLists) ELSE {NoUpstream} :
    \E us \in IF full /\ Continues(up) THEN SubOutcomes(SameSetLists) ELSE {NoUpstream} :
        /\ req' = [NoReq EXCEPT !.handler = "get_related_cards", !.id = card_id,
                                !.limit = limit, !.full = full,
                                !.up1 = uc, !.up2 = up, !.up3 = us]
        /\ resp' = ExceptException(get_related_cards_body(uc, up, us, full, limit))
        /\ cacheCall' = NoCacheCall
        /\ UNCHANGED <<cache, now, card, totals, out, pc, frame, writes>>

(***************************************************************************)
(* The service                                                             *)
(***************************************************************************)
Init ==
    /\ cache = [k \in {} |-> <<None, 0>>]
    /\ now = 0
    /\ req = NoReq
    /\ resp = NoResp
    /\ cacheCall = NoCacheCall
    /\ card = NoCard
    /\ totals = NoTotals
    /\ out = NoOut
    /\ pc = [t \in Threads |-> "idle"]
    /\ frame = [t \in Threads |-> NoFrame]
    /\ writes = <<>>

CardDetail == \E card_id \in CardIds : get_card_detail(card_id)

SetDetail == \E set_id \in SetIds : get_set_detail(set_id)

Related == \E card_id \in RelatedIds, limit \in Limits : get_related_cards(card_id, limit)

Next ==
    \/ Tick
    \/ search_cards
    \/ CardDetail
    \/ get_trending_cards
    \/ get_all_sets
    \/ SetDetail
    \/ Related

Spec == Init /\ [][Next]_vars

(***************************************************************************)
(* The enrichment functions applied to bounded inputs                      *)
(***************************************************************************)
MaxVariants == 2

MaxCards == 3

VariantNames == {"normal", "holofoil", "1stEdition", "reverseHolofoil"}

\* the figures a variant carries when it carries them, distinct per variant
MarketOf(name) ==
    CASE name = "normal" -> 4500
      [] name = "holofoil" -> 13500
      [] name = "1stEdition" -> 180000
      [] OTHER -> 9990

MidOf(name) ==
    CASE name = "normal" -> 9000
      [] name = "holofoil" -> 27000
      [] name = "1stEdition" -> 54000
      [] OTHER -> 2500

Items ==
    {[name |-> n, market |-> m, mid |-> d] :
        n \in VariantNames, m \in {Absent, Null}, d \in {Absent, Null}}
    \cup {[name |-> n, market |-> Num(MarketOf(n)), mid |-> d] :
        n \in VariantNames, d \in {Absent, Null}}
    \cup {[name |-> n, market |-> m, mid |-> Num(MidOf(n))] :
        n \in VariantNames, m \in {Absent, Null}}
    \cup {[name |-> n, market |-> Num(MarketOf(n)), mid |-> Num(MidOf(n))] :
        n \in VariantNames}

\* the dicts of at most n variants, in every order of their keys
RECURSIVE PriceMaps(_)
PriceMaps(n) ==
    IF n = 0 THEN {<<>>}
    ELSE LET prev == PriceMaps(n - 1)
             longest == {q \in prev : Len(q) = n - 1}
         IN  prev \cup {Append(pq[1], pq[2]) :
                          pq \in {x \in longest \X Items : ~HasVariant(x[1], x[2].name)}}

Tcgs(n) ==
    {Absent, Null, Dict(Absent), Dict(Null)} \cup {Dict(Dict(pm)) : pm \in PriceMaps(n)}

Rarities ==
    {Absent, Null} \cup {Str(r) : r \in DOMAIN pull_rates \cup {"Promo"}}

Cards ==
    [rarity : {Absent}, tcgplayer : Tcgs(MaxVariants)]
    \cup [rarity : Rarities, tcgplayer : Tcgs(1)]

Tiers == {0, 1, 2, 5, 10, 12}

TotalValues ==
    {v \in {t * 1000 * n + d : t \in Tiers, n \in 0..MaxCards, d \in {-10, 0, 10}} : v >= 0}

Totals ==
    [total_value : TotalValues, total_cards : 0..MaxCards]
    \cup {[total_value |-> 1200000, total_cards |-> 100]}

InitEnrich ==
    /\ cache = [k \in {} |-> <<None, 0>>]
    /\ now = 0
    /\ req = NoReq
    /\ resp = NoResp
    /\ cacheCall = NoCacheCall
    /\ \/ card \in Cards /\ totals = NoTotals
       \/ card = NoCard /\ totals \in Totals
    /\ out = NoOut
    /\ pc = [t \in Threads |-> "idle"]
    /\ frame = [t \in Threads |-> NoFrame]
    /\ writes = <<>>

ExtractMarketPrice ==
    /\ out' = [fn |-> "extract_market_price", result |-> extract_market_price(card)]
    /\ UNCHANGED <<cache, now, req, resp, cacheCall, card, totals, pc, frame, writes>>

CalculatePullRate ==
    /\ out' = [fn |-> "calculate_pull_rate", result |-> calculate_pull_rate(card)]
    /\ UNCHANGED <<cache, now, req, resp, cacheCall, card, totals, pc, frame, writes>>

CalculateInvestment ==
    /\ out' = [fn |-> "calculate_investment", result |-> calculate_investment(card)]
    /\ UNCHANGED <<cache, now, req, resp, cacheCall, card, totals, pc, frame, writes>>

CalculateSetRating ==
    /\ out' = [fn |-> "calculate_set_rating",
               result |-> calculate_set_rating(totals.total_value, totals.total_cards)]
    /\ UNCHANGED <<cache, now, req, resp, cacheCall, card, totals, pc, frame, writes>>

NextEnrich ==
    \/ ExtractMarketPrice
    \/ CalculatePullRate
    \/ CalculateInvestment
    \/ CalculateSetRating

SpecEnrich == InitEnrich /\ [][NextEnrich]_vars

(***************************************************************************)
(* Properties of the enrichment functions (checked under SpecEnrich)       *)
(***************************************************************************)
HasPrices == card.tcgplayer.k = "dict" /\ card.tcgplayer.v.k = "dict"

PricesOf == card.tcgplayer.v.v

\* the variant is present and its market is a number (present and non-null)
HasMarket(prices, name) ==
    HasVariant(prices, name) /\ Variant(prices, name).market.k = "num"

\* C3: the result is the market value of the first variant, in the order
\* normal, holofoil, unlimited, 1stEdition, whose market is present and
\* non-null; a variant whose market is null is skipped.
C3_FirstNonNullMarket ==
    (out.fn = "extract_market_price" /\ HasPrices)
        => \A i \in 1..Len(PreferenceOrder) :
              (/\ HasMarket(PricesOf, PreferenceOrder[i])
               /\ \A j \in 1..(i - 1) : ~HasMarket(PricesOf, PreferenceOrder[j]))
                  => out.result = Variant(PricesOf, PreferenceOrder[i]).market.v

\* no variant has a market key, and some variant has a non-null mid
MidOnly ==
    /\ HasPrices
    /\ \A i \in 1..Len(PricesOf) : PricesOf[i].market.k = "absent"
    /\ \E i \in 1..Len(PricesOf) : PricesOf[i].mid.k = "num"

\* no tcgplayer, no prices, or variants with neither market nor mid
NoPriceData ==
    \/ card.tcgplayer.k = "absent"
    \/ card.tcgplayer.k = "dict" /\ card.tcgplayer.v.k = "absent"
    \/ /\ HasPrices
       /\ \A i \in 1..Len(PricesOf) :
             PricesOf[i].market.k = "absent" /\ PricesOf[i].mid.k = "absent"

\* C4: with no market figure anywhere and a mid value somewhere, the result
\* is the mid value of a variant that has one; with no price data at all the
\* result is 0.
C4_MidFallback ==
    out.fn = "extract_market_price"
        => /\ MidOnly => \E i \in 1..Len(PricesOf) :
                            PricesOf[i].mid.k = "num" /\ out.result = PricesOf[i].mid.v
           /\ NoPriceData => out.result = 0

\* C5: the recommendation is BUY_SINGLE exactly when market_price is below
\* one_in_packs x 4.50, OPEN_PACKS otherwise (equality included), and the
\* reported opening cost and pack count are that product and one_in_packs.
C5_Recommendation ==
    out.fn = "calculate_investment"
        => LET r == out.result
               packs == calculate_pull_rate(card).one_in_packs
           IN  /\ r.market_price = extract_market_price(card)
               /\ r.packs_needed_average = packs
               /\ r.average_opening_cost = packs * pack_cost
               /\ r.recommendation \in {"BUY_SINGLE", "OPEN_PACKS"}
               /\ r.recommendation = "BUY_SINGLE" <=> r.market_price < packs * pack_cost

C5_Witness ==
    /\ out.fn = "calculate_investment"
    /\ out.result.market_price > 0
    /\ out.result.market_price = out.result.packs_needed_average * pack_cost
    /\ out.result.recommendation = "OPEN_PACKS"

\* C8: a rarity of the table yields its row, "Rare Secret" 0.25 and 40, any
\* other rarity the default 5.0 and 2; the rarity given is echoed and
\* one_in_packs is at least 1.
C8_PullRateTable ==
    out.fn = "calculate_pull_rate"
        => LET r == out.result
               inTable == card.rarity.k = "str" /\ card.rarity.v \in DOMAIN pull_rates
           IN  /\ inTable => /\ r.percentage = pull_rates[card.rarity.v].rate
                             /\ r.one_in_packs = pull_rates[card.rarity.v].packs
               /\ card.rarity = Str("Rare Secret")
                     => r.percentage = 25 /\ r.one_in_packs = 40
               /\ (card.rarity.k # "absent" /\ ~inTable)
                     => r.percentage = 500 /\ r.one_in_packs = 2
               /\ card.rarity.k # "absent" => r.rarity = card.rarity
               /\ r.one_in_packs >= 1

C8_Witness ==
    /\ out.fn = "calculate_pull_rate"
    /\ card.rarity = Str("Promo")
    /\ out.result = [percentage |-> 500, one_in_packs |-> 2, rarity |-> Str("Promo")]

\* C9: the rating buckets total_value / total_cards with strict thresholds
\* 10, 5, 2, 1 (an average equal to a threshold falls in the lower tier);
\* with total_cards = 0 the average is 0 and the rating Basic.
C9_SetRating ==
    out.fn = "calculate_set_rating"
        => LET v == totals.total_value
               n == totals.total_cards
           IN  IF n = 0 THEN out.result = "Basic"
               ELSE /\ out.result = "Exceptional" <=> v > 10000 * n
                    /\ out.result = "Very Good" <=> (v > 5000 * n /\ v <= 10000 * n)
                    /\ out.result = "Good" <=> (v > 2000 * n /\ v <= 5000 * n)
                    /\ out.result = "Regular" <=> (v > 1000 * n /\ v <= 2000 * n)
                    /\ out.result = "Basic" <=> v <= 1000 * n

C9_Witness ==
    /\ out.fn = "calculate_set_rating"
    /\ totals.total_cards > 1
    /\ totals.total_value = 10000 * totals.total_cards
    /\ out.result = "Very Good"

(***************************************************************************)
(* Two request threads in get_cached_or_fetch for the same key.  Handlers  *)
(* declared with `def` run in the server's thread pool; a thread can be    *)
(* pre-empted between any two statements, and the store of the finished    *)
(* tuple into the dict is one indivisible step.                            *)
(***************************************************************************)
RaceKey == CacheKey("c1")

\* the entry a stale key starts with, stored by an earlier call
StaleEntry == <<"v1", 0>>

\* the age test applied to the tuple the thread has read
EntryFresh(entry, t) == TimedeltaSeconds(t - entry[2]) < CACHE_DURATION

InitRace ==
    /\ \/ cache = [k \in {} |-> <<None, 0>>] /\ now = 0
       \/ /\ cache = [k \in {RaceKey} |-> StaleEntry]
          /\ now \in {t \in Instants : t - StaleEntry[2] >= CACHE_DURATION}
    /\ req = NoReq
    /\ resp = NoResp
    /\ cacheCall = NoCacheCall
    /\ card = NoCard
    /\ totals = NoTotals
    /\ out = NoOut
    /\ pc = [t \in Threads |-> "test"]
    /\ frame = [t \in Threads |-> NoFrame]
    /\ writes = <<>>

\* `if cache_key in cache:`
TestMembership(t) ==
    /\ pc[t] = "test"
    /\ pc' = [pc EXCEPT ![t] = IF RaceKey \in DOMAIN cache THEN "read" ELSE "fetch"]
    /\ UNCHANGED <<cache, now, req, resp, cacheCall, card, totals, out, frame, writes>>

\* `cached_data, timestamp = cache[cache_key]`
ReadEntry(t) ==
    /\ pc[t] = "read"
    /\ frame' = [frame EXCEPT ![t].cached = cache[RaceKey]]
    /\ pc' = [pc EXCEPT ![t] = "age"]
    /\ UNCHANGED <<cache, now, req, resp, cacheCall, card, totals, out, writes>>

\* `if (datetime.now() - timestamp).seconds < CACHE_DURATION: return cached_data`
TestAge(t) ==
    /\ pc[t] = "age"
    /\ IF EntryFresh(frame[t].cached, now)
       THEN /\ frame' = [frame EXCEPT ![t].ret = frame[t].cached[1]]
            /\ pc' = [pc EXCEPT ![t] = "done"]
       ELSE /\ frame' = frame
            /\ pc' = [pc EXCEPT ![t] = "fetch"]
    /\ UNCHANGED <<cache, now, req, resp, cacheCall, card, totals, out, writes>>

\* `data = fetch_function(*args, **kwargs)`
Fetch(t) ==
    /\ pc[t] = "fetch"
    /\ \E u \in UpstreamOutcomes(CardVersions) :
          LET f == fetch_card(u)
          IN  IF f.raised
              THEN /\ frame' = [frame EXCEPT ![t].invoked = 1]
                   /\ pc' = [pc EXCEPT ![t] = "raised"]
              ELSE /\ frame' = [frame EXCEPT ![t].invoked = 1, ![t].data = f.value]
                   /\ pc' = [pc EXCEPT ![t] = "stamp"]
    /\ UNCHANGED <<cache, now, req, resp, cacheCall, card, totals, out, writes>>

\* the right-hand side of line 52: `(data, datetime.now())`
Stamp(t) ==
    /\ pc[t] = "stamp"
    /\ frame' = [frame EXCEPT ![t].timestamp = now]
    /\ pc' = [pc EXCEPT ![t] = "store"]
    /\ UNCHANGED <<cache, now, req, resp, cacheCall, card, totals, out, writes>>

\* `cache[cache_key] = ...` and `return data`
Store(t) ==
    /\ pc[t] = "store"
    /\ cache' = CacheStore(cache, RaceKey, frame[t].data, frame[t].timestamp)
    /\ writes' = Append(writes, t)
    /\ frame' = [frame EXCEPT ![t].ret = frame[t].data]
    /\ pc' = [pc EXCEPT ![t] = "done"]
    /\ UNCHANGED <<now, req, resp, cacheCall, card, totals, out>>

ThreadStep ==
    \E t \in Threads :
        \/ TestMembership(t)
        \/ ReadEntry(t)
        \/ TestAge(t)
        \/ Fetch(t)
        \/ Stamp(t)
        \/ Store(t)

NextRace ==
    \/ Tick
    \/ ThreadStep

SpecRace == InitRace /\ [][NextRace]_vars

(***************************************************************************)
(* Properties of the race (checked under SpecRace)                         *)
(***************************************************************************)
\* the pair a thread that has passed line 52 wrote or is about to write
PairOf(t) == <<frame[t].data, frame[t].timestamp>>

Writers == {writes[i] : i \in 1..Len(writes)}

\* the results of the producer invocations for the key: those of the two
\* calls, and the one that stored the entry the key started with
Produced ==
    {StaleEntry[1]} \cup {frame[t].data : t \in {u \in Threads : pc[u] \in {"stamp", "store", "done"}
                                                              /\ frame[u].invoked = 1}}

EntryAge == cacheCall.start - cacheCall.entry[2]

\* C1: a get_cached_or_fetch call that finds an entry younger than the
\* time-to-live returns the stored value, does not invoke the producer and
\* leaves the entry (value and timestamp) as it was.
C1_CacheHit ==
    (cacheCall.called /\ cacheCall.hadEntry /\ EntryAge < CACHE_DURATION)
        => /\ cacheCall.ret = cacheCall.entry[1]
           /\ cacheCall.invoked = 0
           /\ ~cacheCall.raised
           /\ cache[cacheCall.key] = cacheCall.entry

C1_Witness ==
    /\ cacheCall.called /\ cacheCall.hadEntry
    /\ EntryAge = CACHE_DURATION - 1
    /\ cacheCall.entry[1] \in CardVersions
    /\ cacheCall.ret = cacheCall.entry[1]
    /\ cacheCall.invoked = 0

\* C2: a get_cached_or_fetch call that finds no entry, or an entry whose age
\* is at or above the time-to-live (however large), invokes the producer
\* once, stores (result, now) under the key and returns the fresh result.
C2_CacheExpiry ==
    (cacheCall.called /\ ~cacheCall.raised
       /\ (~cacheCall.hadEntry \/ EntryAge >= CACHE_DURATION))
        => /\ cacheCall.invoked = 1
           /\ cacheCall.ret = cacheCall.fetched
           /\ cache[cacheCall.key] = <<cacheCall.fetched, cacheCall.at>>

\* the upstream answered the handler's first query with "not found"
UpstreamUnknownId ==
    /\ req.handler \in {"get_card_detail", "get_related_cards", "get_set_detail"}
    /\ ~req.up1.raised
    /\ req.up1.status_code = 404

\* C6: when the upstream does not know the requested card or set id, the
\* client receives a not-found error (HTTP 404), not the generic HTTP 500.
C6_NotFoundIs404 ==
    UpstreamUnknownId => (resp.raised /\ resp.status_code = 404)

\* C7: in the search and sets-list handlers an upstream status s other than
\* 200 reaches the client as an HTTP error with status s.
C7_UpstreamStatusSurfaced ==
    (/\ req.handler \in {"search_cards", "get_all_sets"}
     /\ ~req.up1.raised
     /\ req.up1.status_code # 200)
        => (resp.raised /\ resp.status_code = req.up1.status_code)

\* a trending sub-query failed: the call raised or answered a non-200 status
SubQueryFailed(u) == u.raised \/ u.status_code # 200

\* the trending response is a success whose lists are each filled from its
\* own sub-query, a failed sub-query giving the empty list
TrendingPartialSuccess ==
    /\ resp.success
    /\ resp.data.hot_cards = (IF SubQueryFailed(req.up1) THEN <<>> ELSE req.up1.body)
    /\ resp.data.cold_cards = (IF SubQueryFailed(req.up2) THEN <<>> ELSE req.up2.body)

\* C10 as stated: whatever way a trending sub-query fails, its list is empty
\* and the request still succeeds with the other list from its own sub-query.
C10_AnyFailureIsPartial ==
    (/\ req.handler = "get_trending_cards"
     /\ (SubQueryFailed(req.up1) \/ SubQueryFailed(req.up2)))
        => TrendingPartialSuccess

\* C10 amended: a sub-query answered with a non-200 status leaves its list
\* empty while the request succeeds with the other list from its own
\* sub-query, provided both calls returned and every 200 body is readable;
\* a sub-query that raises, or a 200 body that cannot be read, fails the
\* whole request with HTTP 500.
C10_StatusFailureIsPartial ==
    req.handler = "get_trending_cards"
        => IF Continues(req.up1) /\ Continues(req.up2)
           THEN TrendingPartialSuccess
           ELSE resp.raised /\ resp.status_code = 500

C10_Witness ==
    /\ req.handler = "get_trending_cards"
    /\ ~req.up1.raised /\ req.up1.status_code = 503
    /\ Usable(req.up2)
    /\ resp.success
    /\ resp.data.hot_cards = <<>>
    /\ resp.data.cold_cards = <<"k1">>

\* the response of a card-detail request whose card is None
CardNotFoundResponse == ExceptException(HTTPException(404, "Card not found"))

\* the last request is a card-detail request whose fetch was answered with
\* a status other than 200
FailedCardFetch ==
    /\ req.handler = "get_card_detail"
    /\ cacheCall.invoked = 1
    /\ ~req.up1.raised
    /\ req.up1.status_code # 200

\* the last request is a card-detail request that found None stored for its
\* id, younger than the time-to-live
NegativeEntryInWindow ==
    /\ req.handler = "get_card_detail"
    /\ cacheCall.hadEntry
    /\ cacheCall.entry[1] = None
    /\ EntryAge < CACHE_DURATION

\* C12: a card fetch answered with a non-200 status stores None under
\* card_<id>; a later card-detail request for that id within the
\* time-to-live makes no upstream call and fails as the first one did.
C12_NegativeCaching ==
    /\ FailedCardFetch
          => /\ cacheCall.key = CacheKey(req.id)
             /\ cacheCall.key \in DOMAIN cache
             /\ cache[cacheCall.key] = <<None, cacheCall.at>>
             /\ resp = CardNotFoundResponse
    /\ NegativeEntryInWindow
          => /\ cacheCall.invoked = 0
             /\ req.up1 = NoUpstream
             /\ cache[cacheCall.key] = cacheCall.entry
             /\ resp = CardNotFoundResponse

C12_Witness ==
    /\ NegativeEntryInWindow
    /\ EntryAge = CACHE_DURATION - 1
    /\ cacheCall.invoked = 0
    /\ resp.status_code = 500

====
